---- MODULE Spec2Model ----
(***************************************************************************)
(* Model of the DVD-rental data generator: the popularity-weighted         *)
(* inventory sampler and the weekly generation of src/generator.py (class  *)
(* DVDRentalDataGenerator) and the business lifecycle of                   *)
(* src/level_4_advanced_master/adv_master_simulation.py.                   *)
(*                                                                         *)
(* Python floats are modelled as exact rationals <<numerator, denominator>> *)
(* in lowest terms with a positive denominator; calendar dates are day     *)
(* numbers; an optional value (None / SQL NULL) is the empty sequence and  *)
(* a present value v is <<v>>.                                             *)
(***************************************************************************)
EXTENDS Integers, Sequences, FiniteSets, TLC

VARIABLES
    config,         \* self.config: the generation settings handed to __init__
    zipfian_alpha,  \* self.zipfian_alpha
    inventory,      \* table inventory: inventory_id -> film_id
    film_releases,  \* table film_releases: film_id -> optional release_date
    rental,         \* table rental: inventory_id -> number of rental rows
    transactions,   \* the caller's list of generated, not yet inserted transactions
                    \* (the inventory_id of each tuple)
    calc,           \* arguments and result of the last _calculate_zipfian_weights call
    sample,         \* arguments and result of the last sampler / generate_transaction call
    business_phases,\* AdvancedSimulationConfig.business_phases
    phase_call,     \* argument and result of the last get_business_phase call
    volume_modifiers,       \* AdvancedSimulationConfig.volume_modifiers
    start_date,             \* AdvancedSimulationConfig.start_date
    base_weekly_transactions,   \* generation_config['base_weekly_transactions']
    advanced_features,      \* AdvancedSimulationConfig.advanced_features
    override_season,        \* the override_season argument of add_incremental_weeks
    seasonal_drift, \* self.seasonal_drift of the generator
    week_number,    \* the last week_number of the loop of add_incremental_weeks
    week,           \* what the loop computed and generated for that week
    seasonal_call,  \* argument and result of the last get_seasonal_multiplier call
                    \* of run_advanced_simulation.py
    call_results,   \* results of the last direct calls, by function name
    customer,       \* table customer: the customer_id of its rows
    churned_customers,  \* self.churned_customers of the generator
    active,         \* the list returned by the last get_active_customers call
    churn_marked,   \* every customer get_active_customers has marked as churned in
                    \* this simulation run (kept to state the property of the churn)
    rental_rows,    \* table rental: rows with their dates
    new_rentals,    \* tuples returned by generate_transaction, not yet inserted
    late_fees,      \* table late_fees (None while the table does not exist)
    pc,             \* position of main
    total_weeks,    \* config.total_weeks
    current_week,   \* current_week of main
    weeks_added,    \* weeks_added of main
    batch,          \* the locals of the running add_incremental_weeks call
    rental_span,    \* MIN(rental_date) and MAX(rental_date) of table rental
    last_week       \* arguments of the last add_week_of_transactions call

vars == <<config, zipfian_alpha, inventory, film_releases, rental, transactions,
          calc, sample, business_phases, phase_call, volume_modifiers, start_date,
          base_weekly_transactions, advanced_features, override_season,
          seasonal_drift, week_number, week, seasonal_call, call_results, customer,
          churned_customers, active, churn_marked, rental_rows, new_rentals,
          late_fees, pc, total_weeks, current_week, weeks_added, batch, rental_span,
          last_week>>

run_vars == <<call_results, customer, churned_customers, active, churn_marked,
              rental_rows, new_rentals, late_fees, pc, total_weeks, current_week,
              weeks_added, batch, rental_span, last_week>>

lifecycle_vars == <<volume_modifiers, start_date, base_weekly_transactions,
                    advanced_features, override_season, seasonal_drift,
                    week_number, week, seasonal_call>>

(***************************************************************************)
(* Bounds of the model.                                                    *)
(***************************************************************************)
MaxCand == 3        \* longest candidate list handed to the weight function
MaxAlpha == 2       \* largest (integer) power-law exponent
BoostDays == 2      \* days_to_boost of the configurations explored
MaxTx == 2          \* transactions generated before they are inserted
MaxRentals == 3     \* rows of the rental table

RentalCountValues == {0, 10, 50}
FilmIdValues == {7, 160}
None == <<>>
Some(v) == <<v>>

(***************************************************************************)
(* Exact rational arithmetic (the model of Python float arithmetic).       *)
(***************************************************************************)
Abs(x) == IF x < 0 THEN -x ELSE x

RECURSIVE GCD(_, _)
GCD(a, b) == IF b = 0 THEN a ELSE GCD(b, a % b)

Rat(n, d) ==
    LET g == GCD(Abs(n), Abs(d))
        s == IF d < 0 THEN -1 ELSE 1
    IN  <<(s * n) \div g, (s * d) \div g>>

RInt(n) == <<n, 1>>
RAdd(x, y) == Rat(x[1] * y[2] + y[1] * x[2], x[2] * y[2])
RSub(x, y) == Rat(x[1] * y[2] - y[1] * x[2], x[2] * y[2])
RMul(x, y) == Rat(x[1] * y[1], x[2] * y[2])
RDiv(x, y) == Rat(x[1] * y[2], x[2] * y[1])
RLess(x, y) == x[1] * y[2] < y[1] * x[2]
RLeq(x, y) == x[1] * y[2] <= y[1] * x[2]

RECURSIVE IntPow(_, _)
IntPow(b, e) == IF e = 0 THEN 1 ELSE b * IntPow(b, e - 1)

\* base ** alpha for an integer alpha of either sign
RPow(b, alpha) ==
    IF alpha >= 0 THEN Rat(IntPow(b, alpha), 1) ELSE Rat(1, IntPow(b, -alpha))

RECURSIVE RSum(_)
RSum(s) == IF s = <<>> THEN RInt(0) ELSE RAdd(Head(s), RSum(Tail(s)))

(***************************************************************************)
(* _calculate_zipfian_weights (src/generator.py 737-804).                  *)
(* a   : the call's arguments [rental_counts, alpha, release_dates,        *)
(*       current_date, film_ids]; an omitted list argument is <<>>.        *)
(* cfg : self.config['generation']['new_movie_boost'].                     *)
(***************************************************************************)
SetMax(S) == CHOOSE m \in S : \A x \in S : x <= m

RECURSIVE SortedAscending(_)
\* variant: sorted(S) without reverse=True
SortedAscending(S) ==
    IF S = {} THEN <<>>
    ELSE LET m == SetMax(S) IN SortedAscending(S \ {m}) \o <<m>>

RECURSIVE SortedReverse(_)
\* sorted(S, reverse=True) of a set of integers
SortedReverse(S) ==
    IF S = {} THEN <<>>
    ELSE LET m == SetMax(S) IN <<m>> \o SortedReverse(S \ {m})

\* sorted_counts = sorted(set(rental_counts), reverse=True)
sorted_counts(rental_counts) ==
    SortedReverse({rental_counts[i] : i \in DOMAIN rental_counts})

\* variant: ranks taken from sorted(rental_counts, reverse=True), without set():
\* a count maps to the last row position that holds it
count_to_rank_by_position(rental_counts) ==
    [count \in {rental_counts[i] : i \in DOMAIN rental_counts} |->
        Cardinality({i \in DOMAIN rental_counts : rental_counts[i] >= count})]

\* count_to_rank = {count: rank + 1 for rank, count in enumerate(sorted_counts)}
count_to_rank(rental_counts) ==
    LET sc == sorted_counts(rental_counts)
    IN  [count \in {sc[i] : i \in DOMAIN sc} |->
            (CHOOSE rank \in 0..(Len(sc) - 1) : sc[rank + 1] = count) + 1]

\* variant: the docstring's 1 / (rank ^ alpha)
BaseWeightOfRank(rank, alpha) == RDiv(RInt(1), RPow(rank, alpha))

\* variant: the exponent is left out
BaseWeightHarmonic(rank, alpha) == Rat(1, rank + 1)

\* weight = 1.0 / ((rank + 1) ** alpha)
BaseWeight(rank, alpha) == RDiv(RInt(1), RPow(rank + 1, alpha))

\* days_since_release = current_date - release_date, in days
days_since_release(current_date, release_date) == current_date[1] - release_date[1]

\* variant: the film_id is compared without the modulo
BoostSelectedById(film_id, boost_percentage) == film_id < boost_percentage

\* (film_id % 100) < boost_percentage
BoostSelected(film_id, boost_percentage) == (film_id % 100) < boost_percentage

\* variant: the boost is computed only when every row has a release date
BoostAppliesIfAllDated(cfg, a, idx) ==
    /\ cfg.enabled
    /\ a.release_dates # <<>>
    /\ \A k \in DOMAIN a.release_dates : a.release_dates[k] # None
    /\ a.current_date # None
    /\ a.film_ids # <<>>
    /\ LET d == days_since_release(a.current_date, a.release_dates[idx])
       IN  /\ 0 <= d
           /\ d <= cfg.days_to_boost
           /\ BoostSelected(a.film_ids[idx], cfg.boost_percentage)

\* the nested conditions of lines 779-790: TRUE iff "weight *= boost_multiplier" runs
BoostApplies(cfg, a, idx) ==
    /\ cfg.enabled
    /\ a.release_dates # <<>>
    /\ a.current_date # None
    /\ a.film_ids # <<>>
    /\ a.release_dates[idx] # None
    /\ LET d == days_since_release(a.current_date, a.release_dates[idx])
       IN  /\ 0 <= d
           /\ d <= cfg.days_to_boost
           /\ BoostSelected(a.film_ids[idx], cfg.boost_percentage)

\* variant: the decay term scales boost_factor instead of boost_factor - 1.0
boost_multiplier_to_zero(boost_factor, d, boost_days) ==
    RSub(boost_factor, RMul(Rat(d, boost_days), boost_factor))

\* boost_multiplier = boost_factor - (days_since_release / boost_days) * (boost_factor - 1.0)
boost_multiplier(boost_factor, d, boost_days) ==
    RSub(boost_factor, RMul(Rat(d, boost_days), RSub(boost_factor, RInt(1))))

\* the weight appended for row idx (line 795)
Weight(cfg, a, idx) ==
    LET rank == count_to_rank(a.rental_counts)[a.rental_counts[idx]]
        weight == BaseWeight(rank, a.alpha)
    IN  IF BoostApplies(cfg, a, idx)
        THEN RMul(weight,
                  boost_multiplier(cfg.boost_factor,
                                   days_since_release(a.current_date, a.release_dates[idx]),
                                   cfg.days_to_boost))
        ELSE weight

weights(cfg, a) == [idx \in 1..Len(a.rental_counts) |-> Weight(cfg, a, idx)]

\* variant: scaled by the largest weight instead of the sum
NormalizeByMax(ws) ==
    LET top == CHOOSE w \in {ws[i] : i \in DOMAIN ws} :
                   \A i \in DOMAIN ws : RLeq(ws[i], w)
    IN  [i \in 1..Len(ws) |-> RDiv(ws[i], top)]

\* lines 797-802
Normalize(ws) ==
    LET total_weight == RSum(ws)
    IN  IF RLess(RInt(0), total_weight)
        THEN [i \in 1..Len(ws) |-> RDiv(ws[i], total_weight)]
        ELSE [i \in 1..Len(ws) |-> Rat(1, Len(ws))]

\* (ws is bound through a one-element set so that the list is evaluated once)
calculate_zipfian_weights(cfg, a) ==
    IF a.rental_counts = <<>> THEN <<RInt(1)>>
    ELSE CHOOSE normalized_weights \in {Normalize(ws) : ws \in {weights(cfg, a)}} : TRUE

\* The record of one call: its arguments, its locals at line 795 (the rank, whether
\* the boost branch ran, the weight appended) and the list it returns.
CalcRecord(cfg, a) ==
    LET ctr == count_to_rank(a.rental_counts)
        raw == weights(cfg, a)
        normalized_weights == calculate_zipfian_weights(cfg, a)
    IN  [args |-> a,
         ranks |-> [idx \in 1..Len(a.rental_counts) |-> ctr[a.rental_counts[idx]]],
         boosted |-> [idx \in 1..Len(a.rental_counts) |-> BoostApplies(cfg, a, idx)],
         raw_weights |-> raw,
         weights |-> normalized_weights]

(***************************************************************************)
(* Construction: DVDRentalDataGenerator.__init__ (src/generator.py 30-51). *)
(* A configuration is [alpha, new_movie_boost]; alpha is optional.         *)
(***************************************************************************)
BoostFactorValues == {<<2, 1>>, <<3, 2>>}
BoostPercentageValues == {0, 50, 100}

NewMovieBoostConfigs(factors, percentages) ==
    [enabled : BOOLEAN, days_to_boost : {BoostDays},
     boost_factor : factors, boost_percentage : percentages]

DefaultBoost ==
    [enabled |-> TRUE, days_to_boost |-> BoostDays,
     boost_factor |-> <<2, 1>>, boost_percentage |-> 100]

\* With the boost disabled the other three settings are never used, so one
\* disabled configuration stands for all of them.
BoostConfigs(factors, percentages) ==
    {b \in NewMovieBoostConfigs(factors, percentages) :
        b.enabled \/ b = [DefaultBoost EXCEPT !.enabled = FALSE]}

\* configurations that satisfy the documented ranges (alpha > 0, 0 <= percentage <= 100)
ValidConfigs ==
    [alpha : {Some(x) : x \in 1..MaxAlpha},
     new_movie_boost : BoostConfigs(BoostFactorValues, BoostPercentageValues)]

\* variant: the configured exponent is ignored
DefaultZipfianAlpha(cfg) == 1

\* self.zipfian_alpha = config.get(...).get('alpha', 1.0)
InitZipfianAlpha(cfg) == IF cfg.alpha = None THEN 1 ELSE cfg.alpha[1]

\* the defaults of AdvancedSimulationConfig.__init__
\* (src/level_4_advanced_master/adv_master_simulation.py 149-154)
DefaultBusinessPhases ==
    [growth_phase_weeks |-> 104, plateau_phase_weeks |-> 208,
     decline_phase_weeks |-> 104, reactivation_phase_weeks |-> 104]

\* the defaults of AdvancedSimulationConfig.__init__ (0.025, 0.0, -0.005, 0.015)
DefaultVolumeModifiers ==
    [growth_factor |-> Rat(1, 40), plateau_factor |-> RInt(0),
     decline_factor |-> Rat(-1, 200), reactivation_factor |-> Rat(3, 200)]

\* advanced_features = {}: enable_seasonality is read with the default False
DefaultAdvancedFeatures == [enable_seasonality |-> FALSE, volatility |-> Rat(1, 20)]

\* the generator's default for base_weekly_transactions
DefaultBaseWeeklyTransactions == 500

\* no direct call has been made
NoCalls ==
    [get_volume_modifier |-> None, run_get_volume_modifier |-> None,
     demonstrate_power_law |-> None, process_late_fees |-> None]

\* main has not been started, no direct call has been made, the tables are empty
RunAtRest ==
    /\ call_results = NoCalls
    /\ customer = {}
    /\ churned_customers = {}
    /\ active = None
    /\ churn_marked = {}
    /\ rental_rows = {}
    /\ new_rentals = <<>>
    /\ late_fees = None
    /\ pc = "start"
    /\ total_weeks = 0
    /\ current_week = 0
    /\ weeks_added = 0
    /\ batch = None
    /\ rental_span = None
    /\ last_week = None

\* the lifecycle simulation has not been started: defaults, no week added
LifecycleAtRest ==
    /\ volume_modifiers = DefaultVolumeModifiers
    /\ start_date = 0
    /\ base_weekly_transactions = DefaultBaseWeeklyTransactions
    /\ advanced_features = DefaultAdvancedFeatures
    /\ override_season = None
    /\ seasonal_drift = RInt(0)
    /\ week_number = 0
    /\ week = None
    /\ seasonal_call = None

\* rental is kept as the number of rental rows per inventory_id
RentalKeys(inv) == DOMAIN inv \cup {1}

EmptyDatabase ==
    /\ inventory = <<>>
    /\ film_releases = [f \in FilmIdValues |-> None]
    /\ rental = [i \in RentalKeys(<<>>) |-> 0]
    /\ transactions = <<>>
    /\ sample = None

(***************************************************************************)
(* SpecWeights: _calculate_zipfian_weights called once, directly, on a     *)
(* freshly constructed generator, with arguments drawn from bounded sets.  *)
(***************************************************************************)
ReleaseDateValues == {None, Some(2)}
CurrentDateValues == {Some(d) : d \in 1..(BoostDays + 3)}

\* A row without a release date never uses its film_id (line 782), so such rows
\* are enumerated with one film_id only.
Candidates ==
    {c \in RentalCountValues \X FilmIdValues \X ReleaseDateValues :
        c[3] # None \/ c[2] = 7}

SeqsUpTo(S, n) == UNION {[1..k -> S] : k \in 0..n}

\* the argument record of a call on the rows cs, with or without the optional lists
CallArgs(cs, alpha, current_date, with_boost_args) ==
    [rental_counts |-> [i \in 1..Len(cs) |-> cs[i][1]],
     alpha |-> alpha,
     film_ids |-> IF with_boost_args THEN [i \in 1..Len(cs) |-> cs[i][2]] ELSE <<>>,
     release_dates |-> IF with_boost_args THEN [i \in 1..Len(cs) |-> cs[i][3]] ELSE <<>>,
     current_date |-> IF with_boost_args THEN current_date ELSE None]

InitWeights ==
    /\ config \in ValidConfigs
    /\ zipfian_alpha = InitZipfianAlpha(config)
    /\ calc = None
    /\ EmptyDatabase
    /\ business_phases = DefaultBusinessPhases
    /\ phase_call = None
    /\ LifecycleAtRest
    /\ RunAtRest

CalculateZipfianWeightsUpTo(n) ==
    /\ calc = None
    /\ \E cs \in SeqsUpTo(Candidates, n), current_date \in CurrentDateValues :
         LET a == CallArgs(cs, zipfian_alpha, current_date, TRUE)
         IN  calc' = Some(CalcRecord(config.new_movie_boost, a))
    /\ UNCHANGED <<config, zipfian_alpha, inventory, film_releases, rental,
                   transactions, sample, business_phases, phase_call>>
    /\ UNCHANGED lifecycle_vars
    /\ UNCHANGED run_vars

CalculateZipfianWeights == CalculateZipfianWeightsUpTo(MaxCand)

\* the call of demo_power_law.py and of callers that pass the counts alone
CalculateZipfianWeightsCountsOnly ==
    /\ calc = None
    /\ \E rc \in SeqsUpTo(RentalCountValues, MaxCand) :
         LET a == CallArgs([i \in 1..Len(rc) |-> <<rc[i], 0, None>>],
                           zipfian_alpha, None, FALSE)
         IN  calc' = Some(CalcRecord(config.new_movie_boost, a))
    /\ UNCHANGED <<config, zipfian_alpha, inventory, film_releases, rental,
                   transactions, sample, business_phases, phase_call>>
    /\ UNCHANGED lifecycle_vars
    /\ UNCHANGED run_vars

NextWeights == CalculateZipfianWeights \/ CalculateZipfianWeightsCountsOnly

SpecWeights == InitWeights /\ [][NextWeights]_vars

(***************************************************************************)
(* Properties of _calculate_zipfian_weights, checked under SpecWeights.    *)
(***************************************************************************)
Called == calc # None
TheCall == calc[1]
Rows == 1..Len(TheCall.args.rental_counts)
Boost == config.new_movie_boost

\* 1 + the number of distinct counts of the call strictly greater than row i's
DenseRank(i) ==
    LET rc == TheCall.args.rental_counts
    IN  1 + Cardinality({v \in {rc[k] : k \in DOMAIN rc} : v > rc[i]})

\* 1 / (DenseRank(i) + 1)^alpha
ExpectedBase(i) == Rat(1, IntPow(DenseRank(i) + 1, TheCall.args.alpha))

HasDate(i) ==
    /\ TheCall.args.release_dates # <<>>
    /\ TheCall.args.current_date # None
    /\ TheCall.args.release_dates[i] # None

DaysSince(i) == TheCall.args.current_date[1] - TheCall.args.release_dates[i][1]

InWindow(i) == HasDate(i) /\ 0 <= DaysSince(i) /\ DaysSince(i) <= Boost.days_to_boost

Eligible(i) == (TheCall.args.film_ids[i] % 100) < Boost.boost_percentage

\* boost_factor - (d / days_to_boost) * (boost_factor - 1), as one fraction
ExpectedMultiplier(d) ==
    Rat(Boost.boost_factor[1] * Boost.days_to_boost
            - d * (Boost.boost_factor[1] - Boost.boost_factor[2]),
        Boost.boost_factor[2] * Boost.days_to_boost)

\* C1: for a non-empty list of rental counts, alpha > 0 and any boost configuration,
\* the call returns one weight per candidate, in input order (each proportional to
\* the weight computed for its row), and the returned weights sum to 1.
C1_WeightsSumToOne ==
    (Called /\ TheCall.args.rental_counts # <<>> /\ TheCall.args.alpha > 0) =>
        /\ DOMAIN TheCall.weights = Rows
        /\ RSum(TheCall.weights) = RInt(1)
        /\ \A i \in Rows : \A j \in Rows :
              RMul(TheCall.weights[i], TheCall.raw_weights[j])
                  = RMul(TheCall.weights[j], TheCall.raw_weights[i])

C1_Witness ==
    /\ Called
    /\ Len(TheCall.args.rental_counts) = 3
    /\ \E i \in Rows : TheCall.boosted[i] /\ TheCall.raw_weights[i] # ExpectedBase(i)
    /\ \E i \in Rows : ~TheCall.boosted[i]
    /\ RSum(TheCall.weights) = RInt(1)

\* C2: the rank of a candidate is the dense rank of its rental count (1 + the number
\* of distinct counts strictly greater), equal counts share a rank whatever their row
\* position, and the ranks in use are exactly 1..k for k distinct counts.
C2_DenseRank ==
    Called =>
        /\ \A i \in Rows : TheCall.ranks[i] = DenseRank(i)
        /\ \A i \in Rows : \A j \in Rows :
              TheCall.args.rental_counts[i] = TheCall.args.rental_counts[j]
                  => TheCall.ranks[i] = TheCall.ranks[j]
        /\ {TheCall.ranks[i] : i \in Rows}
              = 1..Cardinality({TheCall.args.rental_counts[i] : i \in Rows})

C2_Witness ==
    /\ Called
    /\ TheCall.args.rental_counts = <<10, 50, 10>>
    /\ TheCall.ranks = <<2, 1, 2>>

C4_MonotonicPopularity ==
    Called =>
        \A i \in Rows : \A j \in Rows :
            (~TheCall.boosted[i] /\ ~TheCall.boosted[j]) =>
                /\ TheCall.args.rental_counts[i] > TheCall.args.rental_counts[j]
                      => RLess(TheCall.weights[j], TheCall.weights[i])
                /\ TheCall.args.rental_counts[i] = TheCall.args.rental_counts[j]
                      => TheCall.weights[i] = TheCall.weights[j]

C4_Witness ==
    /\ Called
    /\ \E i \in Rows : \E j \in Rows :
          /\ ~TheCall.boosted[i] /\ ~TheCall.boosted[j]
          /\ TheCall.args.rental_counts[i] > TheCall.args.rental_counts[j]
          /\ RLess(TheCall.weights[j], TheCall.weights[i])
    /\ \E i \in Rows : TheCall.boosted[i]

\* C5: for a boost-eligible candidate with boost enabled the multiplier applied to its
\* weight is exactly boost_factor at d = 0 and exactly 1 at d = days_to_boost; for
\* d > days_to_boost no boost is applied, whatever boost_percentage is.
C5_BoostWindowBoundary ==
    Called =>
        \A i \in Rows : HasDate(i) =>
            /\ (Boost.enabled /\ Eligible(i) /\ DaysSince(i) = 0)
                  => TheCall.raw_weights[i] = RMul(ExpectedBase(i), Boost.boost_factor)
            /\ (Boost.enabled /\ Eligible(i) /\ DaysSince(i) = Boost.days_to_boost)
                  => TheCall.raw_weights[i] = ExpectedBase(i)
            /\ DaysSince(i) > Boost.days_to_boost
                  => (~TheCall.boosted[i] /\ TheCall.raw_weights[i] = ExpectedBase(i))

C5_Witness ==
    /\ Called
    /\ \E i \in Rows :
          /\ HasDate(i) /\ Boost.enabled /\ Eligible(i)
          /\ DaysSince(i) = Boost.days_to_boost
          /\ TheCall.boosted[i]
          /\ Boost.boost_factor # RInt(1)

AvailableLimit == 50

Min(a, b) == IF a <= b THEN a ELSE b

\* _get_available_inventory_for_customer: the lists it can return.  A list is kept
\* as the set of its ids: ORDER BY RAND() fixes no order and every later use (the
\* IN-list of the query, random.choice) ignores it.
get_available_inventory_for_customer ==
    LET ids == DOMAIN inventory
        fetched == {S \in SUBSET ids :
                       Cardinality(S) = Min(AvailableLimit, Cardinality(ids))}
    IN  {IF S # {} THEN S ELSE {1} : S \in fetched}

\* COALESCE(COUNT(r.rental_id), 0) of the group of inventory row i: the rental rows
\* joined ON i.inventory_id = r.inventory_id
rental_count(i) == rental[i]

\* one row of the query: (inventory_id, film_id, rental_count, release_date)
InventoryRow(i) ==
    [inventory_id |-> i,
     film_id |-> inventory[i],
     rental_count |-> rental_count(i),
     release_date |-> film_releases[inventory[i]]]

\* the results the query can return for WHERE i.inventory_id IN (inventory_ids):
\* the rows of the ids found, ORDER BY rental_count DESC, ties in any order
QueryResults(inventory_ids) ==
    LET found == inventory_ids \cap DOMAIN inventory
        n == Cardinality(found)
    IN  {[k \in 1..n |-> InventoryRow(order[k])] :
            order \in {o \in [1..n -> found] :
                          /\ \A k \in 1..n : \A l \in 1..n : o[k] = o[l] => k = l
                          /\ \A k \in 1..n : \A l \in 1..n :
                                k < l => rental_count(o[k]) >= rental_count(o[l])}}

\* the arguments handed to _calculate_zipfian_weights (lines 716-729)
WeightArgs(inventory_data, rental_date) ==
    [rental_counts |-> [k \in 1..Len(inventory_data) |-> inventory_data[k].rental_count],
     alpha |-> zipfian_alpha,
     film_ids |-> [k \in 1..Len(inventory_data) |-> inventory_data[k].film_id],
     release_dates |-> [k \in 1..Len(inventory_data) |-> inventory_data[k].release_date],
     current_date |-> rental_date]

\* variant: a default id is returned when there is nothing to choose from
ReturnDefaultId == [inventory_data |-> <<>>, calc |-> None, selected_id |-> Some(1)]

\* "return None" of lines 680-681 and 713-714
ReturnNone == [inventory_data |-> <<>>, calc |-> None, selected_id |-> None]

\* _get_weighted_inventory_id_from_list: its possible outcomes.  selected_id is None
\* for the sentinel; calc is the weight computation it made, if any.  All weights
\* are positive, so random.choices can return any row.
get_weighted_inventory_id_from_list(inventory_ids, rental_date) ==
    IF inventory_ids = {}
    THEN {ReturnNone}
    ELSE UNION {
        IF inventory_data = <<>>
        THEN {ReturnNone}
        ELSE {[inventory_data |-> inventory_data,
               calc |-> Some(rec),
               selected_id |-> Some(inventory_data[k].inventory_id)] :
                  rec \in {CalcRecord(config.new_movie_boost,
                                      WeightArgs(inventory_data, rental_date))},
                  k \in 1..Len(inventory_data)}
        : inventory_data \in QueryResults(inventory_ids)}

RentalDateValues == {Some(d) : d \in 0..(BoostDays + 1)}
RowsInRental == LET keys == DOMAIN rental
                    Total[S \in SUBSET keys] ==
                        IF S = {} THEN 0
                        ELSE LET i == CHOOSE x \in S : TRUE
                             IN  rental[i] + Total[S \ {i}]
                IN  Total[keys]

\* generate_transaction, and line 476 of its caller: the tuple is appended to the
\* caller's list
GenerateTransaction ==
    /\ Len(transactions) < MaxTx
    /\ RowsInRental + Len(transactions) < MaxRentals
    /\ \E rental_date \in RentalDateValues,
          fetched \in get_available_inventory_for_customer :
         LET available_inventory == IF fetched = {} THEN DOMAIN inventory ELSE fetched
         IN  \E out \in get_weighted_inventory_id_from_list(available_inventory, rental_date) :
             \E inventory_id \in (IF out.selected_id # None
                                  THEN {out.selected_id[1]}
                                  ELSE available_inventory) :
                /\ sample' = Some([caller |-> "generate_transaction",
                                   rental_date |-> rental_date,
                                   inventory_ids |-> available_inventory,
                                   inventory_data |-> out.inventory_data,
                                   weights_computed |-> out.calc # None,
                                   selected_id |-> out.selected_id,
                                   inventory_id |-> Some(inventory_id)])
                /\ calc' = IF out.calc # None THEN out.calc ELSE calc
                /\ transactions' = Append(transactions, inventory_id)
    /\ UNCHANGED <<config, zipfian_alpha, inventory, film_releases, rental,
                   business_phases, phase_call>>
    /\ UNCHANGED lifecycle_vars
    /\ UNCHANGED run_vars

\* _get_weighted_inventory_id_from_list called on its own, on a generator that has
\* sampled nothing yet, with any list of ids
GetWeightedInventoryId ==
    /\ sample = None
    /\ \E rental_date \in RentalDateValues, inventory_ids \in SUBSET RentalKeys(inventory) :
         \E out \in get_weighted_inventory_id_from_list(inventory_ids, rental_date) :
            /\ sample' = Some([caller |-> "direct",
                               rental_date |-> rental_date,
                               inventory_ids |-> inventory_ids,
                               inventory_data |-> out.inventory_data,
                               weights_computed |-> out.calc # None,
                               selected_id |-> out.selected_id,
                               inventory_id |-> None])
            /\ calc' = IF out.calc # None THEN out.calc ELSE calc
    /\ UNCHANGED <<config, zipfian_alpha, inventory, film_releases, rental,
                   transactions, business_phases, phase_call>>
    /\ UNCHANGED lifecycle_vars
    /\ UNCHANGED run_vars

\* _calculate_zipfian_weights called on its own with an empty list, on a generator
\* that has sampled nothing yet
CalculateZipfianWeightsOfNothing ==
    /\ calc = None
    /\ sample = None
    /\ calc' = Some(CalcRecord(config.new_movie_boost,
                               CallArgs(<<>>, zipfian_alpha, None, FALSE)))
    /\ UNCHANGED <<config, zipfian_alpha, inventory, film_releases, rental,
                   transactions, sample, business_phases, phase_call>>
    /\ UNCHANGED lifecycle_vars
    /\ UNCHANGED run_vars

\* _insert_transactions (lines 478-480, 618-627)
InsertTransactions ==
    /\ transactions # <<>>
    /\ rental' = [i \in DOMAIN rental |->
                     rental[i] + Cardinality({k \in DOMAIN transactions : transactions[k] = i})]
    /\ transactions' = <<>>
    /\ UNCHANGED <<config, zipfian_alpha, inventory, film_releases, calc, sample,
                   business_phases, phase_call>>
    /\ UNCHANGED lifecycle_vars
    /\ UNCHANGED run_vars

InventoryTables == {<<>>, <<7, 7, 160>>}
SamplerConfigs ==
    [alpha : {None, Some(MaxAlpha)},
     new_movie_boost : BoostConfigs({<<2, 1>>}, {50, 100})]

InitSampler ==
    /\ config \in SamplerConfigs
    /\ zipfian_alpha = InitZipfianAlpha(config)
    /\ inventory \in InventoryTables
    /\ film_releases \in [FilmIdValues -> {None, Some(0)}]
    /\ rental = [i \in RentalKeys(inventory) |-> 0]
    /\ transactions = <<>>
    /\ calc = None
    /\ sample = None
    /\ business_phases = DefaultBusinessPhases
    /\ phase_call = None
    /\ LifecycleAtRest
    /\ RunAtRest

NextSampler ==
    \/ GenerateTransaction
    \/ GetWeightedInventoryId
    \/ InsertTransactions
    \/ CalculateZipfianWeightsOfNothing

SpecSampler == InitSampler /\ [][NextSampler]_vars

(***************************************************************************)
(* Loading the configurations and using them: DVDRentalDataGenerator       *)
(* .__init__ (src/generator.py 30-51), AdvancedSimulationConfig.__init__   *)
(* and get_business_phase (adv_master_simulation.py 119-207, 451-464),     *)
(* with configuration values inside and outside the documented ranges.     *)
(***************************************************************************)
MaxWeek == 5

\* variant: the end week of a phase belongs to the next phase
get_business_phase_end_exclusive(week_num, phases) ==
    LET growth_end == phases.growth_phase_weeks
        plateau_end == growth_end + phases.plateau_phase_weeks
        decline_end == plateau_end + phases.decline_phase_weeks
    IN  IF week_num < growth_end THEN "growth"
        ELSE IF week_num < plateau_end THEN "plateau"
        ELSE IF week_num < decline_end THEN "decline"
        ELSE "reactivation"

\* variant: the boundaries are the phase lengths, not their running sums
get_business_phase_not_cumulative(week_num, phases) ==
    IF week_num <= phases.growth_phase_weeks THEN "growth"
    ELSE IF week_num <= phases.plateau_phase_weeks THEN "plateau"
    ELSE IF week_num <= phases.decline_phase_weeks THEN "decline"
    ELSE "reactivation"

get_business_phase(week_num, phases) ==
    LET growth_end == phases.growth_phase_weeks
        plateau_end == growth_end + phases.plateau_phase_weeks
        decline_end == plateau_end + phases.decline_phase_weeks
    IN  IF week_num <= growth_end THEN "growth"
        ELSE IF week_num <= plateau_end THEN "plateau"
        ELSE IF week_num <= decline_end THEN "decline"
        ELSE "reactivation"

GetBusinessPhase ==
    /\ phase_call = None
    /\ \E week_num \in 1..MaxWeek :
         phase_call' = Some([week_num |-> week_num,
                             phase |-> get_business_phase(week_num, business_phases)])
    /\ UNCHANGED <<config, zipfian_alpha, inventory, film_releases, rental,
                   transactions, calc, sample, business_phases>>
    /\ UNCHANGED lifecycle_vars
    /\ UNCHANGED run_vars

RawConfigs ==
    [alpha : {None, Some(-1), Some(1)},
     new_movie_boost : BoostConfigs({<<2, 1>>}, {-5, 50, 150})]

RawBusinessPhases ==
    [growth_phase_weeks : {-1, 2}, plateau_phase_weeks : {-1, 1},
     decline_phase_weeks : {1}, reactivation_phase_weeks : {1}]

InitConfig ==
    /\ config \in RawConfigs
    /\ zipfian_alpha = InitZipfianAlpha(config)
    /\ business_phases \in RawBusinessPhases
    /\ calc = None
    /\ phase_call = None
    /\ EmptyDatabase
    /\ LifecycleAtRest
    /\ RunAtRest

\* one use of a loaded configuration per behaviour
NextConfig ==
    \/ (phase_call = None /\ CalculateZipfianWeightsUpTo(2))
    \/ (calc = None /\ GetBusinessPhase)

SpecConfig == InitConfig /\ [][NextConfig]_vars

(***************************************************************************)
(* Properties of the sampler and of the configuration.                     *)
(***************************************************************************)
Sampled == sample # None
TheSample == sample[1]
NoCandidateRows == TheSample.inventory_ids = {} \/ TheSample.inventory_data = <<>>

\* row i of call record c has a release date inside the boost window
InWindowOf(c, i) ==
    /\ c.args.release_dates # <<>>
    /\ c.args.current_date # None
    /\ c.args.release_dates[i] # None
    /\ 0 <= c.args.current_date[1] - c.args.release_dates[i][1]
    /\ c.args.current_date[1] - c.args.release_dates[i][1] <= Boost.days_to_boost

\* two calls agree on every film that is inside the window in both
CallsAgree(c1, c2) ==
    \A i \in DOMAIN c1.args.rental_counts : \A j \in DOMAIN c2.args.rental_counts :
        ( /\ InWindowOf(c1, i)
          /\ InWindowOf(c2, j)
          /\ c1.args.film_ids[i] = c2.args.film_ids[j] )
        => (c1.boosted[i] <=> c2.boosted[j])

\* C6: with boost enabled a candidate whose release date lies inside the boost window
\* is boosted if and only if film_id mod 100 < boost_percentage, and two evaluations
\* for the same film_id agree: within a call (whatever the rental counts and the other
\* candidates) and from each call to the next (whatever the sampling date inside the
\* window and the number of earlier calls).
C6_DeterministicEligibility ==
    /\ [](Called =>
            /\ \A i \in Rows :
                  (Boost.enabled /\ InWindow(i)) => (TheCall.boosted[i] <=> Eligible(i))
            /\ CallsAgree(TheCall, TheCall))
    /\ [][(calc # None /\ calc' # None) => CallsAgree(calc[1], calc'[1])]_vars

C6_Witness ==
    /\ Called
    /\ Boost.enabled
    /\ \E i \in Rows : \E j \in Rows : \E k \in Rows :
          /\ InWindow(i) /\ InWindow(j) /\ InWindow(k)
          /\ TheCall.args.film_ids[i] = TheCall.args.film_ids[j]
          /\ TheCall.args.rental_counts[i] # TheCall.args.rental_counts[j]
          /\ TheCall.boosted[i] /\ TheCall.boosted[j]
          /\ ~TheCall.boosted[k]

PhaseCalled == phase_call # None

OutOfRange ==
    \/ zipfian_alpha < 0
    \/ Boost.boost_percentage < 0
    \/ Boost.boost_percentage > 100

NegativePhaseLength ==
    \E k \in DOMAIN business_phases : business_phases[k] < 0

C10_FilmLevelCount ==
    (Sampled /\ TheSample.weights_computed) =>
        \A k \in DOMAIN TheSample.inventory_data :
        \A l \in DOMAIN TheSample.inventory_data :
            TheSample.inventory_data[k].film_id = TheSample.inventory_data[l].film_id
                => /\ TheSample.inventory_data[k].rental_count
                        = TheSample.inventory_data[l].rental_count
                   /\ TheCall.ranks[k] = TheCall.ranks[l]

(***************************************************************************)
(* The business lifecycle of the advanced simulation                        *)
(* (src/level_4_advanced_master/adv_master_simulation.py): the loop of      *)
(* add_incremental_weeks with get_business_phase, get_volume_modifier and   *)
(* get_seasonal_multiplier, and the week it asks the generator to add       *)
(* (src/generator.py, add_week_of_transactions, get_week_day_distribution). *)
(* A date is its number of days since 2000-01-01.                           *)
(***************************************************************************)
MaxWeeksAdded == 4  \* iterations of the loop of add_incremental_weeks

IsLeap(y) == (y % 4 = 0 /\ y % 100 # 0) \/ y % 400 = 0
DaysInYear(y) == IF IsLeap(y) THEN 366 ELSE 365
DaysInMonth(y, m) ==
    IF m = 2 THEN (IF IsLeap(y) THEN 29 ELSE 28)
    ELSE IF m \in {4, 6, 9, 11} THEN 30 ELSE 31

RECURSIVE DaysBeforeYear(_)
DaysBeforeYear(y) == IF y <= 2000 THEN 0 ELSE DaysInYear(y - 1) + DaysBeforeYear(y - 1)

RECURSIVE DaysBeforeMonth(_, _)
DaysBeforeMonth(y, m) ==
    IF m = 1 THEN 0 ELSE DaysInMonth(y, m - 1) + DaysBeforeMonth(y, m - 1)

\* datetime.date(y, m, d)
Date(y, m, d) == DaysBeforeYear(y) + DaysBeforeMonth(y, m) + d - 1

RECURSIVE YearFrom(_, _)
YearFrom(y, n) == IF n < DaysInYear(y) THEN <<y, n>> ELSE YearFrom(y + 1, n - DaysInYear(y))

RECURSIVE MonthFrom(_, _, _)
MonthFrom(y, m, n) ==
    IF n < DaysInMonth(y, m) THEN m ELSE MonthFrom(y, m + 1, n - DaysInMonth(y, m))

\* date.month
MonthOf(n) == LET yn == YearFrom(2000, n) IN MonthFrom(yn[1], 1, yn[2])

\* variant: the week number is added as a number of days
AddWeeksAsDays(date, k) == date + k

\* date + timedelta(weeks=k)
AddWeeks(date, k) == date + 7 * k

\* int(x) of a float: truncation toward zero
Trunc(x) == IF x[1] >= 0 THEN x[1] \div x[2] ELSE -((-x[1]) \div x[2])

RMin(x, y) == IF RLeq(x, y) THEN x ELSE y

\* variant: the factor of the phase, whatever the week (get_volume_modifier of
\* run_advanced_simulation.py)
get_volume_modifier_flat(week_num, phases, modifiers) ==
    LET phase == get_business_phase(week_num, phases)
    IN  IF phase = "growth" THEN modifiers.growth_factor
        ELSE IF phase = "plateau" THEN modifiers.plateau_factor
        ELSE IF phase = "decline" THEN modifiers.decline_factor
        ELSE modifiers.reactivation_factor

\* variant: the weeks of decline and reactivation are counted from the week number 0
get_volume_modifier_from_start(week_num, phases, modifiers) ==
    LET phase == get_business_phase(week_num, phases)
    IN  IF phase = "growth" THEN RMul(modifiers.growth_factor, RInt(week_num))
        ELSE IF phase = "plateau" THEN modifiers.plateau_factor
        ELSE IF phase = "decline" THEN RMul(modifiers.decline_factor, RInt(week_num))
        ELSE RMul(modifiers.reactivation_factor, RInt(week_num))

get_volume_modifier(week_num, phases, modifiers) ==
    LET phase == get_business_phase(week_num, phases)
    IN  IF phase = "growth" THEN RMul(modifiers.growth_factor, RInt(week_num))
        ELSE IF phase = "plateau" THEN modifiers.plateau_factor
        ELSE IF phase = "decline" THEN
            LET weeks_in_decline ==
                    week_num - (phases.growth_phase_weeks + phases.plateau_phase_weeks)
            IN  RMul(modifiers.decline_factor, RInt(weeks_in_decline))
        ELSE
            LET weeks_in_reactivation ==
                    week_num - (phases.growth_phase_weeks + phases.plateau_phase_weeks
                                + phases.decline_phase_weeks)
            IN  RMul(modifiers.reactivation_factor, RInt(weeks_in_reactivation))

\* self.seasonal_multipliers, by month
seasonal_multipliers == <<20, -10, 10, 15, 20, 80, 100, 90, 30, 25, 40, 60>>

\* random.uniform(-bound, bound): the two ends and a value between
Uniform(bound) == {RMul(f, bound) : f \in {RInt(-1), Rat(1, 2), RInt(1)}}

\* get_seasonal_multiplier of adv_master_simulation.py: its possible outcomes
get_seasonal_multiplier(week_num, start, features, override) ==
    IF override # None
    THEN {[month |-> None, table_pct |-> None, jitter |-> None,
           multiplier |-> RAdd(RInt(1), RDiv(override[1], RInt(100)))]}
    ELSE LET week_date == AddWeeks(start, week_num)
             month == MonthOf(week_date)
             seasonal_pct == RInt(seasonal_multipliers[month])
             jitters == IF features.enable_seasonality
                        THEN {Some(j) : j \in Uniform(RMul(features.volatility, RInt(100)))}
                        ELSE {None}
         IN  {[month |-> Some(month), table_pct |-> Some(seasonal_pct), jitter |-> j,
               multiplier |->
                   RAdd(RInt(1),
                        RDiv(IF j = None THEN seasonal_pct ELSE RAdd(seasonal_pct, j[1]),
                             RInt(100)))] : j \in jitters}

\* the table of get_seasonal_multiplier of run_advanced_simulation.py, by month
run_seasonal_multipliers ==
    <<Rat(105, 100), Rat(95, 100), Rat(105, 100), Rat(110, 100), Rat(115, 100),
      Rat(125, 100), Rat(130, 100), Rat(125, 100), Rat(115, 100), Rat(112, 100),
      Rat(120, 100), Rat(125, 100)>>

\* plateau_config['seasonal_volatility'], default 0.1
DefaultSeasonalVolatility == Rat(1, 10)

\* get_seasonal_multiplier of run_advanced_simulation.py: its possible outcomes
run_get_seasonal_multiplier(week_num, start, phases, seasonal_volatility) ==
    LET current_date == AddWeeks(start, week_num)
        month == MonthOf(current_date)
        base_multiplier == run_seasonal_multipliers[month]
        phase == get_business_phase(week_num, phases)
        jitters == IF phase = "plateau"
                   THEN {Some(j) : j \in Uniform(seasonal_volatility)}
                   ELSE {None}
    IN  {[week_num |-> week_num, month |-> month, phase |-> phase,
          base_multiplier |-> base_multiplier, jitter |-> j,
          multiplier |-> IF j = None THEN base_multiplier
                         ELSE RAdd(base_multiplier, j[1])] : j \in jitters}

\* variant: the same entry for every day
EarlyDistributionUniform ==
    <<Rat(1, 7), Rat(1, 7), Rat(1, 7), Rat(1, 7), Rat(1, 7), Rat(1, 7), Rat(1, 7)>>

\* the table of the first 8 weeks
EarlyDistribution ==
    <<Rat(1, 10), Rat(1, 10), Rat(1, 10), Rat(1, 10), Rat(15, 100), Rat(2, 10), Rat(15, 100)>>

\* get_week_day_distribution: entry d + 1 is the entry of weekday d (0 = Monday)
get_week_day_distribution(weeks_elapsed) ==
    IF weeks_elapsed < 8 THEN EarlyDistribution
    ELSE LET progress == RMin(Rat(weeks_elapsed - 8, 16), RInt(1))
             base_weekday == RAdd(Rat(12, 100), RMul(Rat(8, 100), progress))
             base_weekend == RSub(Rat(15, 100), RMul(Rat(5, 100), progress))
         IN  <<base_weekday, base_weekday, base_weekday,
               RAdd(base_weekday, Rat(1, 100)),
               base_weekend, base_weekend, RSub(base_weekend, Rat(1, 100))>>

\* self.config.get('generation', {}).get('base_weekly_transactions', 500)
BaseVolume(cfg) ==
    IF "base_weekly_transactions" \in DOMAIN cfg THEN cfg.base_weekly_transactions
    ELSE DefaultBaseWeeklyTransactions

\* is_spike_day for the seven days: sets of days it can answer True for
\* (none, the Monday, the Saturday and the Sunday)
SpikeDaySets == {{}, {1}, {6, 7}}

\* add_week_of_transactions: its possible outcomes.  active_customers tells whether
\* get_active_customers returned any customer; without one the method returns before
\* it computes anything.  The generated rows are kept as their number per day.
add_week_of_transactions(cfg, drift, week_no) ==
    {[active_customers |-> FALSE, expected_transactions |-> None,
      day_distribution |-> <<>>, spike_days |-> {}, day_transactions |-> <<>>]}
    \cup
    LET base_volume == BaseVolume(cfg)
        volume_growth == RAdd(RInt(1), RMul(RInt(week_no), Rat(2, 100)))
        seasonal_factor == RAdd(RInt(1), RDiv(drift, RInt(100)))
        expected_transactions ==
            Trunc(RMul(RMul(RInt(base_volume), volume_growth), seasonal_factor))
        day_distribution == get_week_day_distribution(week_no)
        base_count == Trunc(Rat(expected_transactions, 7))
        day_count(d) == Trunc(RMul(RInt(base_count), day_distribution[d]))
    IN  {[active_customers |-> TRUE,
          expected_transactions |-> Some(expected_transactions),
          day_distribution |-> day_distribution,
          spike_days |-> S,
          day_transactions |->
              [d \in 1..7 |-> IF d \in S THEN day_count(d) * 4 ELSE day_count(d)]]
         : S \in SpikeDaySets}

\* the week numbers the loop can reach from the offsets explored
WeekOffsets == {0, 6, 22, 103, 311, 415}
LoopWeeks == UNION {(o + 1)..(o + MaxWeeksAdded) : o \in WeekOffsets}

\* One iteration of the loop of add_incremental_weeks, from the volume modifier on
\* (lines 811-827).  The film and inventory batches of the iteration write the
\* film and inventory tables, which the computation of the week does not read.
AddIncrementalWeek ==
    /\ week_number + 1 \in LoopWeeks
    /\ week_number' = week_number + 1
    /\ \E seasonal \in get_seasonal_multiplier(week_number', start_date,
                                               advanced_features, override_season) :
         LET volume_modifier == get_volume_modifier(week_number', business_phases,
                                                    volume_modifiers)
             seasonal_multiplier == seasonal.multiplier
             base_volume == base_weekly_transactions
             adjusted_volume ==
                 Trunc(RMul(RMul(RInt(base_volume), RAdd(RInt(1), volume_modifier)),
                            seasonal_multiplier))
             drift == RMul(RSub(seasonal_multiplier, RInt(1)), RInt(100))
         IN  /\ seasonal_drift' = drift
             /\ \E added \in add_week_of_transactions(config, drift, week_number') :
                  week' = Some([week_number |-> week_number',
                                phase |-> get_business_phase(week_number', business_phases),
                                volume_modifier |-> volume_modifier,
                                seasonal |-> seasonal,
                                adjusted_volume |-> adjusted_volume,
                                added |-> added])
    /\ UNCHANGED <<config, zipfian_alpha, inventory, film_releases, rental,
                   transactions, calc, sample, business_phases, phase_call,
                   volume_modifiers, start_date, base_weekly_transactions,
                   advanced_features, override_season, seasonal_call>>
    /\ UNCHANGED run_vars

\* get_seasonal_multiplier of run_advanced_simulation.py called for one week
RunGetSeasonalMultiplier ==
    /\ seasonal_call = None
    /\ \E week_num \in LoopWeeks :
       \E r \in run_get_seasonal_multiplier(week_num, start_date, business_phases,
                                            DefaultSeasonalVolatility) :
         seasonal_call' = Some(r)
    /\ UNCHANGED <<config, zipfian_alpha, inventory, film_releases, rental,
                   transactions, calc, sample, business_phases, phase_call,
                   volume_modifiers, start_date, base_weekly_transactions,
                   advanced_features, override_season, seasonal_drift,
                   week_number, week>>
    /\ UNCHANGED run_vars

\* the generator of add_incremental_weeks is constructed from config.mysql_config
\* (line 748), which has no 'generation' section
MysqlConfig == [alpha |-> None, new_movie_boost |-> DefaultBoost]

ShortBusinessPhases ==
    [growth_phase_weeks : 0..2, plateau_phase_weeks : 0..1,
     decline_phase_weeks : 0..1, reactivation_phase_weeks : {1}]

OtherVolumeModifiers ==
    [growth_factor |-> Rat(1, 10), plateau_factor |-> Rat(1, 20),
     decline_factor |-> Rat(-1, 10), reactivation_factor |-> Rat(1, 5)]

StartDateValues == {Date(2001, 6, 25), Date(2024, 1, 29)}

InitLifecycle ==
    /\ config = MysqlConfig
    /\ zipfian_alpha = InitZipfianAlpha(config)
    /\ calc = None
    /\ EmptyDatabase
    /\ phase_call = None
    /\ \/ business_phases = DefaultBusinessPhases /\ week_number \in WeekOffsets
       \/ business_phases \in ShortBusinessPhases /\ week_number = 0
    /\ volume_modifiers \in {DefaultVolumeModifiers, OtherVolumeModifiers}
    /\ start_date \in StartDateValues
    /\ base_weekly_transactions \in {DefaultBaseWeeklyTransactions, 1000}
    /\ advanced_features \in {DefaultAdvancedFeatures,
                              [enable_seasonality |-> TRUE, volatility |-> Rat(1, 20)]}
    /\ override_season \in {None, Some(RInt(50))}
    /\ seasonal_drift = RInt(0)
    /\ week = None
    /\ seasonal_call = None
    /\ RunAtRest

\* the two programs are run one at a time
NextLifecycle ==
    \/ (seasonal_call = None /\ AddIncrementalWeek)
    \/ (week = None /\ RunGetSeasonalMultiplier)

SpecLifecycle == InitLifecycle /\ [][NextLifecycle]_vars

(***************************************************************************)
(* Properties of the business lifecycle and of the week it generates.      *)
(***************************************************************************)
WeekAdded == week # None
TheWeek == week[1]
GrowthEnd == business_phases.growth_phase_weeks
PlateauEnd == GrowthEnd + business_phases.plateau_phase_weeks
DeclineEnd == PlateauEnd + business_phases.decline_phase_weeks
PhaseOrder(phase) ==
    CASE phase = "growth" -> 1
      [] phase = "plateau" -> 2
      [] phase = "decline" -> 3
      [] phase = "reactivation" -> 4

\* C11: the boundaries of get_business_phase are cumulative and include their end
\* week: the week growth_end is still growth and the next one is not, and likewise for
\* plateau and decline; with 104/208/104/104 the weeks 104, 105, 312, 313 and 417
\* are growth, plateau, plateau, decline and reactivation.
C11_PhaseBoundaries ==
    WeekAdded =>
        LET w == TheWeek.week_number
            phase == TheWeek.phase
        IN  /\ w = GrowthEnd => phase = "growth"
            /\ (w = GrowthEnd + 1 /\ PlateauEnd > GrowthEnd) => phase = "plateau"
            /\ (w = PlateauEnd /\ PlateauEnd > GrowthEnd) => phase = "plateau"
            /\ (w = PlateauEnd + 1 /\ DeclineEnd > PlateauEnd) => phase = "decline"
            /\ (w = DeclineEnd /\ DeclineEnd > PlateauEnd) => phase = "decline"
            /\ w = DeclineEnd + 1 => phase = "reactivation"
            /\ business_phases = DefaultBusinessPhases =>
                  /\ w = 104 => phase = "growth"
                  /\ w = 105 => phase = "plateau"
                  /\ w = 312 => phase = "plateau"
                  /\ w = 313 => phase = "decline"
                  /\ w = 416 => phase = "decline"
                  /\ w = 417 => phase = "reactivation"

C11_Witness ==
    /\ WeekAdded
    /\ business_phases = DefaultBusinessPhases
    /\ TheWeek.week_number = 104
    /\ TheWeek.phase = "growth"

\* C12: with non-negative phase lengths every week from 1 on gets exactly one of the
\* four phases, growth, plateau and decline cover exactly their configured number of
\* consecutive weeks (none when the length is 0), and from one week of the loop to
\* the next the phase never moves backward.
C12_PhasesInOrder ==
    /\ [](WeekAdded =>
            LET w == TheWeek.week_number
                phase == TheWeek.phase
            IN  /\ phase \in {"growth", "plateau", "decline", "reactivation"}
                /\ phase = "growth" <=> (1 <= w /\ w <= GrowthEnd)
                /\ phase = "plateau" <=> (GrowthEnd < w /\ w <= PlateauEnd)
                /\ phase = "decline" <=> (PlateauEnd < w /\ w <= DeclineEnd)
                /\ phase = "reactivation" <=> DeclineEnd < w)
    /\ [][(week # None /\ week' # None) =>
            /\ week'[1].week_number = week[1].week_number + 1
            /\ PhaseOrder(week[1].phase) <= PhaseOrder(week'[1].phase)]_vars

C12_Witness ==
    /\ WeekAdded
    /\ business_phases.growth_phase_weeks = 2
    /\ business_phases.plateau_phase_weeks = 0
    /\ business_phases.decline_phase_weeks = 1
    /\ TheWeek.week_number = 3
    /\ TheWeek.phase = "decline"

\* C13: in the growth phase the volume modifier is growth_factor times the week number
\* (0.25 for growth_factor 0.025 and week 10), so with a positive growth_factor it
\* increases strictly from one growth week to the next.
C13_GrowthModifier ==
    /\ [](( WeekAdded /\ TheWeek.phase = "growth") =>
            /\ TheWeek.volume_modifier
                  = Rat(volume_modifiers.growth_factor[1] * TheWeek.week_number,
                        volume_modifiers.growth_factor[2])
            /\ (volume_modifiers.growth_factor = Rat(25, 1000) /\ TheWeek.week_number = 10)
                  => TheWeek.volume_modifier = Rat(25, 100))
    /\ [][( /\ week # None /\ week' # None
            /\ week[1].phase = "growth" /\ week'[1].phase = "growth"
            /\ volume_modifiers.growth_factor[1] > 0 )
          => RLess(week[1].volume_modifier, week'[1].volume_modifier)]_vars

C13_Witness ==
    /\ WeekAdded
    /\ TheWeek.phase = "growth"
    /\ TheWeek.week_number = 10
    /\ volume_modifiers.growth_factor = Rat(25, 1000)
    /\ TheWeek.volume_modifier = Rat(1, 4)

\* C14: the volume modifier is plateau_factor in every plateau week, decline_factor
\* times (week - plateau_end) in every decline week and reactivation_factor times
\* (week - decline_end) in every reactivation week; the first week after a boundary
\* counts as 1.
C14_LaterPhaseModifiers ==
    WeekAdded =>
        LET w == TheWeek.week_number
            phase == TheWeek.phase
            Times(factor, n) == Rat(factor[1] * n, factor[2])
        IN  /\ phase = "plateau" => TheWeek.volume_modifier = volume_modifiers.plateau_factor
            /\ phase = "decline" =>
                  TheWeek.volume_modifier
                      = Times(volume_modifiers.decline_factor, w - PlateauEnd)
            /\ phase = "reactivation" =>
                  TheWeek.volume_modifier
                      = Times(volume_modifiers.reactivation_factor, w - DeclineEnd)
            /\ (phase = "decline" /\ w = PlateauEnd + 1) =>
                  TheWeek.volume_modifier = volume_modifiers.decline_factor
            /\ (phase = "reactivation" /\ w = DeclineEnd + 1) =>
                  TheWeek.volume_modifier = volume_modifiers.reactivation_factor

C14_Witness ==
    /\ WeekAdded
    /\ business_phases = DefaultBusinessPhases
    /\ TheWeek.week_number = 314
    /\ TheWeek.phase = "decline"
    /\ volume_modifiers = DefaultVolumeModifiers
    /\ TheWeek.volume_modifier = Rat(-1, 100)

NoJitterNoOverride == override_season = None /\ ~advanced_features.enable_seasonality

C16_JitterOnlyInPlateau ==
    (WeekAdded /\ override_season = None) =>
        LET table_value == Rat(100 + seasonal_multipliers[TheWeek.seasonal.month[1]], 100)
            difference == RSub(TheWeek.seasonal.multiplier, table_value)
        IN  /\ TheWeek.phase # "plateau" => TheWeek.seasonal.multiplier = table_value
            /\ TheWeek.phase = "plateau" =>
                  /\ RLeq(difference, advanced_features.volatility)
                  /\ RLeq(RSub(RInt(0), advanced_features.volatility), difference)

\* round(x) of Python: to the nearest integer, a tie to the even one
RoundHalfEven(x) ==
    LET q == x[1] \div x[2]
        r == x[1] % x[2]
    IN  IF 2 * r < x[2] THEN q
        ELSE IF 2 * r > x[2] THEN q + 1
        ELSE IF q % 2 = 0 THEN q ELSE q + 1

\* C17: the weekly target that add_week_of_transactions uses for a week added by the
\* lifecycle simulation is round(base_weekly_transactions x (1 + volume_modifier)
\* x seasonal_multiplier).
C17_LifecycleDrivesVolume ==
    (WeekAdded /\ TheWeek.added.active_customers) =>
        TheWeek.added.expected_transactions
            = Some(RoundHalfEven(RMul(RMul(RInt(base_weekly_transactions),
                                           RAdd(RInt(1), TheWeek.volume_modifier)),
                                      TheWeek.seasonal.multiplier)))

RECURSIVE SumOf(_)
SumOf(counts) == IF counts = <<>> THEN 0 ELSE Head(counts) + SumOf(Tail(counts))

\* C18: the day-of-week table used for a week is a probability table (non-negative
\* entries that sum to 1), and in a week without spike days the seven day counts sum
\* to expected_transactions up to a loss of fewer than 7.
C18_DaysSumToWeek ==
    (WeekAdded /\ TheWeek.added.active_customers) =>
        LET dist == TheWeek.added.day_distribution
            total == SumOf(TheWeek.added.day_transactions)
            expected == TheWeek.added.expected_transactions[1]
        IN  /\ \A d \in 1..7 : dist[d][1] >= 0
            /\ RSum(dist) = RInt(1)
            /\ TheWeek.added.spike_days = {} =>
                  (total <= expected /\ expected - total < 7)

LateDistribution ==
    <<Rat(20, 100), Rat(20, 100), Rat(20, 100), Rat(21, 100),
      Rat(10, 100), Rat(10, 100), Rat(9, 100)>>

\* C19: below week 8 the table is the early table, from week 8 to week 24 every entry
\* is early + progress x (late - early) with progress (weeks_elapsed - 8)/16, so at
\* week 8 it is the early table, and from week 24 on it is the late table.
C19_LinearInterpolation ==
    (WeekAdded /\ TheWeek.added.active_customers) =>
        LET w == TheWeek.week_number
            dist == TheWeek.added.day_distribution
            progress == Rat(w - 8, 16)
            Between(d) == RAdd(EarlyDistribution[d],
                               RMul(progress, RSub(LateDistribution[d], EarlyDistribution[d])))
        IN  /\ w < 8 => dist = EarlyDistribution
            /\ (8 <= w /\ w <= 24) => \A d \in 1..7 : dist[d] = Between(d)
            /\ w >= 24 => dist = LateDistribution

\* C20: below week 8 each of Friday, Saturday and Sunday has a strictly larger entry
\* than each of Monday to Thursday, and from week 24 on each of Monday to Thursday has
\* a strictly larger entry than each of Friday, Saturday and Sunday.
C20_WeekendThenWeekday ==
    (WeekAdded /\ TheWeek.added.active_customers) =>
        LET w == TheWeek.week_number
            dist == TheWeek.added.day_distribution
        IN  /\ w < 8 =>
                  \A weekday \in 1..4 : \A weekend \in 5..7 :
                      RLess(dist[weekday], dist[weekend])
            /\ w >= 24 =>
                  \A weekday \in 1..4 : \A weekend \in 5..7 :
                      RLess(dist[weekend], dist[weekday])

C20_Witness ==
    /\ WeekAdded
    /\ TheWeek.added.active_customers
    /\ TheWeek.week_number = 24
    /\ TheWeek.added.day_distribution[4] = Rat(21, 100)
    /\ TheWeek.added.day_distribution[7] = Rat(9, 100)

(***************************************************************************)
(* generate_transaction under a configuration that carries the switch      *)
(* generation.rental_distribution.enabled (documented in                   *)
(* src/demo_power_law.py 122-129), kept as the field enabled of config.    *)
(* __init__ (src/generator.py 50-51) reads only alpha of that section.     *)
(***************************************************************************)
TransactionConfigs ==
    [alpha : {None},
     new_movie_boost : {DefaultBoost, [DefaultBoost EXCEPT !.enabled = FALSE]},
     enabled : BOOLEAN]

InitTransaction ==
    /\ config \in TransactionConfigs
    /\ zipfian_alpha = InitZipfianAlpha(config)
    /\ inventory \in InventoryTables
    /\ film_releases \in [FilmIdValues -> {None, Some(0)}]
    /\ rental = [i \in RentalKeys(inventory) |-> 0]
    /\ transactions = <<>>
    /\ calc = None
    /\ sample = None
    /\ business_phases = DefaultBusinessPhases
    /\ phase_call = None
    /\ LifecycleAtRest
    /\ RunAtRest

SpecTransaction == InitTransaction /\ [][NextSampler]_vars

FromGenerateTransaction == Sampled /\ TheSample.caller = "generate_transaction"

SameWeight(a, b) == ~RLess(a, b) /\ ~RLess(b, a)

\* C21: when rental_distribution.enabled is false, generate_transaction selects the
\* inventory item uniformly among the candidates: whatever weights the selection is
\* made with are all equal, whatever the rental counts and the release dates.
C21_DisabledIsUniform ==
    (FromGenerateTransaction /\ ~config.enabled /\ TheSample.weights_computed) =>
        \A k \in DOMAIN TheCall.weights : \A l \in DOMAIN TheCall.weights :
            SameWeight(TheCall.weights[k], TheCall.weights[l])

\* C30: every transaction returned by generate_transaction carries an inventory_id
\* that is a row of the inventory table and a member of the candidate list the
\* sampler was given, also when the sampler returned nothing and the fallback ran.
C30_InventoryIdIsARow ==
    FromGenerateTransaction =>
        /\ TheSample.inventory_id[1] \in DOMAIN inventory
        /\ TheSample.inventory_id[1] \in TheSample.inventory_ids

(***************************************************************************)
(* Direct calls of the pure functions: the two get_volume_modifier of the  *)
(* advanced simulation and the weight function called for several alphas   *)
(* on one list (src/demo_power_law.py).                                    *)
(***************************************************************************)

\* get_volume_modifier of run_advanced_simulation.py (with its get_business_phase,
\* lines 112-125, which is the get_business_phase of adv_master_simulation.py)
run_get_volume_modifier(week_num, phases, modifiers) ==
    LET phase == get_business_phase(week_num, phases)
    IN  IF phase = "growth" THEN modifiers.growth_factor
        ELSE IF phase = "plateau" THEN modifiers.plateau_factor
        ELSE IF phase = "decline" THEN modifiers.decline_factor
        ELSE modifiers.reactivation_factor

GetVolumeModifier ==
    /\ call_results.get_volume_modifier = None
    /\ \E week_num \in 1..MaxWeek :
         call_results' =
             [call_results EXCEPT !.get_volume_modifier =
                 Some([week_num |-> week_num,
                       volume_modifier |-> get_volume_modifier(week_num, business_phases,
                                                               volume_modifiers)])]
    /\ UNCHANGED <<config, zipfian_alpha, inventory, film_releases, rental,
                   transactions, calc, sample, business_phases, phase_call>>
    /\ UNCHANGED lifecycle_vars
    /\ UNCHANGED <<customer, churned_customers, active, churn_marked, rental_rows,
                   new_rentals, late_fees, pc, total_weeks, current_week, weeks_added,
                   batch, rental_span, last_week>>

RunGetVolumeModifier ==
    /\ call_results.run_get_volume_modifier = None
    /\ \E week_num \in 1..MaxWeek :
         call_results' =
             [call_results EXCEPT !.run_get_volume_modifier =
                 Some([week_num |-> week_num,
                       volume_modifier |-> run_get_volume_modifier(week_num,
                                                                   business_phases,
                                                                   volume_modifiers)])]
    /\ UNCHANGED <<config, zipfian_alpha, inventory, film_releases, rental,
                   transactions, calc, sample, business_phases, phase_call>>
    /\ UNCHANGED lifecycle_vars
    /\ UNCHANGED <<customer, churned_customers, active, churn_marked, rental_rows,
                   new_rentals, late_fees, pc, total_weeks, current_week, weeks_added,
                   batch, rental_span, last_week>>

\* the alphas of the demonstration, an increasing list (integers stand for
\* [0.5, 1.0, 1.5])
alphas == [k \in 1..(MaxAlpha + 1) |-> k]

\* demonstrate_power_law: one list of rental counts, the weights of every alpha.
\* calculate_zipfian_weights_demo (lines 10-30) is _calculate_zipfian_weights called
\* with the counts alone.
DemonstratePowerLaw ==
    /\ call_results.demonstrate_power_law = None
    /\ \E rental_counts \in SeqsUpTo(RentalCountValues, MaxCand) :
         LET rows == [i \in 1..Len(rental_counts) |-> <<rental_counts[i], 0, None>>]
         IN  call_results' =
                 [call_results EXCEPT !.demonstrate_power_law =
                     Some([rental_counts |-> rental_counts,
                           alphas |-> alphas,
                           weights |->
                               [k \in DOMAIN alphas |->
                                   calculate_zipfian_weights(
                                       config.new_movie_boost,
                                       CallArgs(rows, alphas[k], None, FALSE))]])]
    /\ UNCHANGED <<config, zipfian_alpha, inventory, film_releases, rental,
                   transactions, calc, sample, business_phases, phase_call>>
    /\ UNCHANGED lifecycle_vars
    /\ UNCHANGED <<customer, churned_customers, active, churn_marked, rental_rows,
                   new_rentals, late_fees, pc, total_weeks, current_week, weeks_added,
                   batch, rental_span, last_week>>

InitFunctions ==
    /\ config = MysqlConfig
    /\ zipfian_alpha = InitZipfianAlpha(config)
    /\ calc = None
    /\ EmptyDatabase
    /\ phase_call = None
    /\ business_phases \in ShortBusinessPhases \cup {DefaultBusinessPhases}
    /\ LifecycleAtRest
    /\ RunAtRest

\* the demonstration and the simulation are two programs, run one at a time
NextFunctions ==
    \/ (call_results.demonstrate_power_law = None /\ GetVolumeModifier)
    \/ (call_results.demonstrate_power_law = None /\ RunGetVolumeModifier)
    \/ (/\ call_results.get_volume_modifier = None
        /\ call_results.run_get_volume_modifier = None
        /\ DemonstratePowerLaw)

SpecFunctions == InitFunctions /\ [][NextFunctions]_vars

Demonstrated == call_results.demonstrate_power_law # None
TheDemonstration == call_results.demonstrate_power_law[1]

\* the counts of the demonstrated list
DemonstratedCounts ==
    {TheDemonstration.rental_counts[i] : i \in DOMAIN TheDemonstration.rental_counts}

\* C22: for a fixed list with at least two distinct rental counts and no boost, when
\* alpha increases the normalized weight of every candidate with the highest count
\* (rank 1) strictly increases and the normalized weight of every candidate with the
\* lowest count (the last rank) strictly decreases.
C22_AlphaConcentrates ==
    (Demonstrated /\ Cardinality(DemonstratedCounts) >= 2) =>
        LET d == TheDemonstration
        IN  \A k \in DOMAIN d.alphas : \A l \in DOMAIN d.alphas :
                d.alphas[k] < d.alphas[l] =>
                    \A i \in DOMAIN d.rental_counts :
                        /\ (\A c \in DemonstratedCounts : c <= d.rental_counts[i])
                              => RLess(d.weights[k][i], d.weights[l][i])
                        /\ (\A c \in DemonstratedCounts : c >= d.rental_counts[i])
                              => RLess(d.weights[l][i], d.weights[k][i])

C22_Witness ==
    /\ Demonstrated
    /\ TheDemonstration.rental_counts = <<50, 10, 0>>
    /\ TheDemonstration.weights[1] = <<Rat(6, 13), Rat(4, 13), Rat(3, 13)>>
    /\ TheDemonstration.weights[2] = <<Rat(36, 61), Rat(16, 61), Rat(9, 61)>>

\* C27: get_volume_modifier of run_advanced_simulation.py and get_volume_modifier of
\* adv_master_simulation.py return the same value for the same week number under the
\* same phase lengths and factors.
C27_SameVolumeModifier ==
    ( /\ call_results.get_volume_modifier # None
      /\ call_results.run_get_volume_modifier # None
      /\ call_results.get_volume_modifier[1].week_num
            = call_results.run_get_volume_modifier[1].week_num )
    => call_results.get_volume_modifier[1].volume_modifier
          = call_results.run_get_volume_modifier[1].volume_modifier

(***************************************************************************)
(* Customer churn: get_active_customers (src/generator.py 537-580) and the *)
(* generator objects it is called on.  The table customer is the sequence  *)
(* of DATEDIFF(CURDATE(), create_date) of its rows with activebool set     *)
(* (None for a row without create_date); the customer_id is the index.     *)
(***************************************************************************)
MaxCustomers == 2

core_vars == <<config, zipfian_alpha, inventory, film_releases, rental, transactions,
               calc, sample, business_phases, phase_call>>

\* get_active_customers: its possible outcomes, the list returned (as the set of its
\* ids) and self.churned_customers afterwards.  A customer is churned only when
\* week_number > 8, both random draws fail and weeks_since_creation >= 5.
get_active_customers(week_no, customers, churned) ==
    LET eligible == {c \in DOMAIN customers : customers[c] # None /\ c \notin churned}
        may_churn == IF week_no <= 8 THEN {}
                     ELSE {c \in eligible : customers[c][1] \div 7 >= 5}
    IN  {[active |-> eligible \ C, churned_customers |-> churned \cup C] :
            C \in SUBSET may_churn}

\* the weeks of the runs: the end of the ramp-up period and the first weeks after
\* the initial setup
ChurnWeekOffsets == {6, 30}
ChurnWeeks == UNION {(o + 1)..(o + MaxWeeksAdded) : o \in ChurnWeekOffsets}

\* the get_active_customers call of add_week_of_transactions (line 435) for the next
\* week, on the current generator
GetActiveCustomers ==
    /\ week_number + 1 \in ChurnWeeks
    /\ week_number' = week_number + 1
    /\ \E out \in get_active_customers(week_number', customer, churned_customers) :
         /\ active' = Some(out.active)
         /\ churned_customers' = out.churned_customers
         /\ churn_marked' = churn_marked \cup (out.churned_customers \ churned_customers)
    /\ UNCHANGED core_vars
    /\ UNCHANGED <<volume_modifiers, start_date, base_weekly_transactions,
                   advanced_features, override_season, seasonal_drift, week,
                   seasonal_call>>
    /\ UNCHANGED <<call_results, customer, rental_rows, new_rentals, late_fees, pc,
                   total_weeks, current_week, weeks_added, batch, rental_span,
                   last_week>>

\* DVDRentalDataGenerator(config.mysql_config): the generator of the next call of
\* add_incremental_weeks (adv_master_simulation.py 748), or of the next week of
\* run_initial_setup (329), starts with self.churned_customers = set()
NewGenerator ==
    /\ active # None
    /\ churned_customers' = {}
    /\ UNCHANGED core_vars
    /\ UNCHANGED lifecycle_vars
    /\ UNCHANGED <<call_results, customer, active, churn_marked, rental_rows,
                   new_rentals, late_fees, pc, total_weeks, current_week, weeks_added,
                   batch, rental_span, last_week>>

DaysSinceCreationValues == {None, Some(14), Some(70)}

InitChurn ==
    /\ config = MysqlConfig
    /\ zipfian_alpha = InitZipfianAlpha(config)
    /\ calc = None
    /\ EmptyDatabase
    /\ phase_call = None
    /\ business_phases = DefaultBusinessPhases
    /\ volume_modifiers = DefaultVolumeModifiers
    /\ start_date = 0
    /\ base_weekly_transactions = DefaultBaseWeeklyTransactions
    /\ advanced_features = DefaultAdvancedFeatures
    /\ override_season = None
    /\ seasonal_drift = RInt(0)
    /\ week_number \in ChurnWeekOffsets
    /\ week = None
    /\ seasonal_call = None
    /\ call_results = NoCalls
    /\ customer \in [1..MaxCustomers -> DaysSinceCreationValues]
    /\ churned_customers = {}
    /\ active = None
    /\ churn_marked = {}
    /\ rental_rows = {}
    /\ new_rentals = <<>>
    /\ late_fees = None
    /\ pc = "start"
    /\ total_weeks = 0
    /\ current_week = 0
    /\ weeks_added = 0
    /\ batch = None
    /\ rental_span = None
    /\ last_week = None

NextChurn == GetActiveCustomers \/ NewGenerator

SpecChurn == InitChurn /\ [][NextChurn]_vars

\* C23: a customer that get_active_customers has marked as churned in some week is
\* in no active list returned for that week or any later week of the run, whichever
\* generator the later call is made on.
C23_ChurnIsPermanent ==
    active # None => active[1] \cap churn_marked = {}

(***************************************************************************)
(* The rental rows with their dates: the tuple generate_transaction        *)
(* returns (src/generator.py 582-616), _insert_transactions (618-627) and  *)
(* process_late_fees (adv_master_simulation.py 518-585).  A row of table   *)
(* rental is [rental_id, rental_date, inventory_id, customer_id,           *)
(* return_date]; return_date is None for SQL NULL.                         *)
(***************************************************************************)
MaxRows == 2

\* film.rental_duration of the two films: seed_films draws it from 2..7
\* (src/generator.py 237)
rental_duration == [f \in FilmIdValues |-> IF f = 7 THEN 2 ELSE 7]

\* variant: a late rental is left without a return date
return_dates_open(rental_date) ==
    {Some(rental_date + rental_days) : rental_days \in 3..7} \cup {None}

\* lines 602-614: the return_date values generate_transaction can compute
return_dates(rental_date) ==
    {Some(rental_date + rental_days) : rental_days \in 3..7}
    \cup {Some(rental_date + rental_days + late_days) :
             rental_days \in 3..7, late_days \in 1..14}

\* the current_date and the active customers add_week_of_transactions passes
TupleRentalDates == {Some(1)}
TupleCustomers == {1}

\* generate_transaction, the tuple it returns (the staff_id is left out); line 476
\* of its caller appends the tuple to the caller's list
GenerateTransactionTuple ==
    /\ Cardinality(rental_rows) + Len(new_rentals) < MaxRows
    /\ \E rental_date \in TupleRentalDates, customer_id \in TupleCustomers,
          fetched \in get_available_inventory_for_customer :
         LET available_inventory == IF fetched = {} THEN DOMAIN inventory ELSE fetched
         IN  \E out \in get_weighted_inventory_id_from_list(available_inventory, rental_date) :
             \E inventory_id \in (IF out.selected_id # None
                                  THEN {out.selected_id[1]}
                                  ELSE available_inventory),
                return_date \in return_dates(rental_date[1]) :
                new_rentals' = Append(new_rentals,
                                      [rental_date |-> rental_date[1],
                                       inventory_id |-> inventory_id,
                                       customer_id |-> customer_id,
                                       return_date |-> return_date])
    /\ UNCHANGED core_vars
    /\ UNCHANGED lifecycle_vars
    /\ UNCHANGED <<call_results, customer, churned_customers, active, churn_marked,
                   rental_rows, late_fees, pc, total_weeks, current_week, weeks_added,
                   batch, rental_span, last_week>>

\* _insert_transactions with the dates of the rows: rental_id is AUTO_INCREMENT
InsertTransactionRows ==
    /\ new_rentals # <<>>
    /\ rental_rows' = rental_rows \cup
           {[rental_id |-> Cardinality(rental_rows) + k,
             rental_date |-> new_rentals[k].rental_date,
             inventory_id |-> new_rentals[k].inventory_id,
             customer_id |-> new_rentals[k].customer_id,
             return_date |-> new_rentals[k].return_date] : k \in DOMAIN new_rentals}
    /\ rental' = [i \in DOMAIN rental |->
                     rental[i] + Cardinality({k \in DOMAIN new_rentals :
                                                 new_rentals[k].inventory_id = i})]
    /\ new_rentals' = <<>>
    /\ UNCHANGED <<config, zipfian_alpha, inventory, film_releases, transactions, calc,
                   sample, business_phases, phase_call>>
    /\ UNCHANGED lifecycle_vars
    /\ UNCHANGED <<call_results, customer, churned_customers, active, churn_marked,
                   late_fees, pc, total_weeks, current_week, weeks_added, batch,
                   rental_span, last_week>>

\* f.rental_duration of the film of a rental row (the two INNER JOINs)
RentalDurationOf(r) == rental_duration[inventory[r.inventory_id]]

\* process_late_fees: the table late_fees afterwards.  Without the table the query
\* raises, the except clause returns 0 and nothing is written.
process_late_fees(features, simulation_date, rows, fees) ==
    IF ~("enable_late_fees" \in DOMAIN features /\ features.enable_late_fees)
    THEN fees
    ELSE IF fees = None
    THEN fees
    ELSE
        LET daily_rate == features.daily_rate
            overdue_rentals ==
                {r \in rows :
                    /\ r.inventory_id \in DOMAIN inventory
                    /\ r.return_date = None
                    /\ simulation_date - r.rental_date > RentalDurationOf(r) + 1
                    /\ \A lf \in fees[1] : lf.rental_id # r.rental_id}
            days_overdue(r) == (simulation_date - r.rental_date) - RentalDurationOf(r)
            late_fees_records ==
                {[rental_id |-> r.rental_id,
                  days_overdue |-> days_overdue(r),
                  daily_rate |-> daily_rate,
                  total_fee |-> RMul(RInt(days_overdue(r)), daily_rate),
                  fee_date |-> simulation_date] :
                    r \in {o \in overdue_rentals : days_overdue(o) > 0}}
        IN  Some(fees[1] \cup late_fees_records)

SimulationDateValues == {4, 30}

\* process_late_fees(config, current_date), as main calls it after each batch
ProcessLateFees ==
    /\ new_rentals = <<>>
    /\ \E simulation_date \in SimulationDateValues :
         /\ late_fees' = process_late_fees(advanced_features, simulation_date,
                                           rental_rows, late_fees)
         /\ call_results' =
                [call_results EXCEPT !.process_late_fees =
                    Some([simulation_date |-> simulation_date,
                          rentals |-> {r.rental_id : r \in rental_rows}])]
    /\ UNCHANGED core_vars
    /\ UNCHANGED lifecycle_vars
    /\ UNCHANGED <<customer, churned_customers, active, churn_marked, rental_rows,
                   new_rentals, pc, total_weeks, current_week, weeks_added, batch,
                   rental_span, last_week>>

\* a rental that was never returned, as databases handled by
\* src/unrecorded_rentals/analysis.py contain
OpenRental ==
    [rental_id |-> 1, rental_date |-> 1, inventory_id |-> 1, customer_id |-> 1,
     return_date |-> None]

\* advanced_features with the late fee settings (default rate 1.50)
LateFeeFeatures ==
    [enable_seasonality : {FALSE}, volatility : {Rat(1, 20)},
     enable_late_fees : BOOLEAN, daily_rate : {Rat(3, 2)}]

InitRental ==
    /\ config = MysqlConfig
    /\ zipfian_alpha = InitZipfianAlpha(config)
    /\ inventory \in {<<7>>, <<160>>}
    /\ film_releases = [f \in FilmIdValues |-> None]
    /\ rental = [i \in RentalKeys(inventory) |-> IF i = OpenRental.inventory_id THEN 1 ELSE 0]
    /\ transactions = <<>>
    /\ calc = None
    /\ sample = None
    /\ business_phases = DefaultBusinessPhases
    /\ phase_call = None
    /\ volume_modifiers = DefaultVolumeModifiers
    /\ start_date = 0
    /\ base_weekly_transactions = DefaultBaseWeeklyTransactions
    /\ advanced_features \in LateFeeFeatures
    /\ override_season = None
    /\ seasonal_drift = RInt(0)
    /\ week_number = 0
    /\ week = None
    /\ seasonal_call = None
    /\ call_results = NoCalls
    /\ customer = <<>>
    /\ churned_customers = {}
    /\ active = None
    /\ churn_marked = {}
    /\ rental_rows = {OpenRental}
    /\ new_rentals = <<>>
    /\ late_fees \in {None, Some({})}
    /\ pc = "start"
    /\ total_weeks = 0
    /\ current_week = 0
    /\ weeks_added = 0
    /\ batch = None
    /\ rental_span = None
    /\ last_week = None

NextRental == GenerateTransactionTuple \/ InsertTransactionRows \/ ProcessLateFees

SpecRental == InitRental /\ [][NextRental]_vars

\* return_date is set and lies 3 to 21 days after rental_date
ReturnedInTime(t) ==
    /\ t.return_date # None
    /\ t.rental_date + 3 <= t.return_date[1]
    /\ t.return_date[1] <= t.rental_date + 21

\* C24: every tuple generate_transaction returns, and every row _insert_transactions
\* adds to table rental, has a return_date that is not null and lies between
\* rental_date + 3 days and rental_date + 21 days.
C24_EveryRentalReturned ==
    /\ [](\A k \in DOMAIN new_rentals : ReturnedInTime(new_rentals[k]))
    /\ [][\A r \in rental_rows' \ rental_rows : ReturnedInTime(r)]_vars

C24_Witness ==
    \E r \in rental_rows : r.return_date = Some(r.rental_date + 21)

LateFeesRun == call_results.process_late_fees # None
TheLateFeesRun == call_results.process_late_fees[1]

\* the rental was kept longer than the rental_duration of its film, as far as the
\* simulation date d can tell
KeptTooLong(r, d) ==
    IF r.return_date # None
    THEN r.return_date[1] - r.rental_date > RentalDurationOf(r)
    ELSE d - r.rental_date > RentalDurationOf(r)

\* C25: with late fees enabled, once process_late_fees has run for a simulation date
\* past the due date of a rental that was kept longer than its film's
\* rental_duration, table late_fees holds a record of that rental with days_overdue =
\* days since the rental - rental_duration and total_fee = days_overdue x daily_rate.
C25_LateRentalsGetFees ==
    (LateFeesRun /\ advanced_features.enable_late_fees) =>
        \A r \in rental_rows :
            ( /\ r.rental_id \in TheLateFeesRun.rentals
              /\ TheLateFeesRun.simulation_date > r.rental_date + RentalDurationOf(r)
              /\ KeptTooLong(r, TheLateFeesRun.simulation_date) )
            => /\ late_fees # None
               /\ \E lf \in late_fees[1] :
                     /\ lf.rental_id = r.rental_id
                     /\ lf.days_overdue = (lf.fee_date - r.rental_date) - RentalDurationOf(r)
                     /\ lf.total_fee = RMul(RInt(lf.days_overdue), advanced_features.daily_rate)

(***************************************************************************)
(* The simulation run: run_initial_setup, the Phase 2 loop of main and     *)
(* add_incremental_weeks (adv_master_simulation.py 276-338, 733-835,       *)
(* 940-978; master_simulation.py has the same loop), and generate_weeks    *)
(* (src/generator.py 845-861).  Table rental is kept as MIN(rental_date)   *)
(* and MAX(rental_date); the customer table does not change.               *)
(***************************************************************************)
initial_weeks == 30
batch_size == 4
MaxRemaining == 6

lifecycle_config_vars == <<volume_modifiers, start_date, base_weekly_transactions,
                           advanced_features, override_season, week, seasonal_call>>

\* date.weekday(): Monday is 0 (day 0, 2000-01-01, was a Saturday)
Weekday(date) == (date + 5) % 7

\* date - timedelta(days=date.weekday())
MondayOf(date) == date - Weekday(date)

\* a Monday and a Wednesday
RunStartDates == {Date(2024, 1, 29), Date(2024, 1, 31)}

\* the week numbers a run can compute
RunWeekNumbers == (-1)..(initial_weeks + MaxRemaining + 1)

\* drift = (seasonal_multiplier - 1.0) * 100 of a week of add_incremental_weeks
\* (lines 813, 820), under the default advanced_features and no override
week_drifts(start, week_no) ==
    {RMul(RSub(seasonal.multiplier, RInt(1)), RInt(100)) :
        seasonal \in get_seasonal_multiplier(week_no, start, DefaultAdvancedFeatures, None)}

\* the weekdays (Monday = 1) on which a call of add_week_of_transactions inserts
\* rows: those with a positive day_transactions
days_with_rentals(week_no, drift) ==
    {[active_customers |-> added.active_customers,
      days |-> IF added.active_customers
               THEN {d \in 1..7 : added.day_transactions[d] > 0}
               ELSE {}] :
        added \in add_week_of_transactions(MysqlConfig, drift, week_no)}

\* the two operators above for the weeks and start dates of a run, computed once
WeekDriftTable ==
    {<<start, week_no, week_drifts(start, week_no)>> :
        start \in RunStartDates, week_no \in RunWeekNumbers}

RunDriftValues == {RInt(0)} \cup UNION {t[3] : t \in WeekDriftTable}

DaysWithRentalsTable ==
    {<<week_no, drift, days_with_rentals(week_no, drift)>> :
        week_no \in RunWeekNumbers, drift \in RunDriftValues}

DriftsOf(start, week_no) ==
    (CHOOSE t \in WeekDriftTable : t[1] = start /\ t[2] = week_no)[3]

DaysWithRentalsOf(week_no, drift) ==
    (CHOOSE t \in DaysWithRentalsTable : t[1] = week_no /\ t[2] = drift)[3]

\* the rental_date values of the rows one add_week_of_transactions call inserts
\* (day_transactions is indexed by the weekday of the date, line 460)
rental_dates(week_start_date, added) ==
    {week_start_date + day_offset : day_offset \in
        {o \in 0..6 : Weekday(week_start_date + o) + 1 \in added.days}}

\* MIN(rental_date) and MAX(rental_date) after rows with these dates are inserted
SpanWith(span, dates) ==
    IF dates = {} THEN span
    ELSE LET all == dates \cup (IF span = None THEN {} ELSE {span[1].min, span[1].max})
         IN  Some([min |-> CHOOSE d \in all : \A e \in all : d <= e,
                   max |-> CHOOSE d \in all : \A e \in all : d >= e])

\* add_week_of_transactions(week_start_date, week_number) on a generator whose
\* churned set is churned and whose seasonal_drift is drift: its possible outcomes,
\* the active customers, the churned set and table rental afterwards
week_of_transactions(week_start_date, week_no, churned, drift) ==
    UNION {
        {[active |-> act.active,
          churned_customers |-> act.churned_customers,
          rental_span |-> SpanWith(rental_span, rental_dates(week_start_date, added))] :
            added \in {a \in DaysWithRentalsOf(week_no, drift) :
                          a.active_customers = (act.active # {})}}
        : act \in get_active_customers(week_no, customer, churned)}

\* the record of the call
WeekCall(week_start_date, week_no, caller, first) ==
    Some([week_start |-> week_start_date, week_number |-> week_no,
          caller |-> caller, first |-> first])

\* one iteration of the loop of run_initial_setup (lines 311-331); current_week is
\* the loop variable week, and initial_weeks when the function returns
RunInitialSetupWeek ==
    /\ pc \in {"start", "run_initial_setup"}
    /\ current_week < initial_weeks
    /\ LET week_start == AddWeeks(start_date, -(initial_weeks - current_week - 1))
       IN  /\ \E out \in week_of_transactions(week_start, current_week + 1, {}, RInt(0)) :
                 /\ active' = Some(out.active)
                 /\ churned_customers' = out.churned_customers
                 /\ churn_marked' = churn_marked \cup out.churned_customers
                 /\ rental_span' = out.rental_span
           /\ last_week' = WeekCall(week_start, current_week + 1, "run_initial_setup",
                                    current_week = 0)
    /\ seasonal_drift' = RInt(0)
    /\ week_number' = current_week + 1
    /\ current_week' = current_week + 1
    /\ pc' = "run_initial_setup"
    /\ UNCHANGED core_vars
    /\ UNCHANGED lifecycle_config_vars
    /\ UNCHANGED <<call_results, customer, rental_rows, new_rentals, late_fees,
                   total_weeks, weeks_added, batch>>

\* run_initial_setup returns initial_weeks; main lines 944-956
StartPhase2 ==
    /\ pc = "run_initial_setup"
    /\ current_week = initial_weeks
    /\ weeks_added' = 0
    /\ pc' = "phase2"
    /\ UNCHANGED core_vars
    /\ UNCHANGED lifecycle_vars
    /\ UNCHANGED <<call_results, customer, churned_customers, active, churn_marked,
                   rental_rows, new_rentals, late_fees, total_weeks, current_week,
                   batch, rental_span, last_week>>

remaining_weeks == total_weeks - current_week

\* the body of the while loop up to the loop of add_incremental_weeks (main 958-966,
\* add_incremental_weeks 745-773).  Without a rental row add_incremental_weeks
\* returns 0 and main adds 0 to weeks_added.
CallAddIncrementalWeeks ==
    /\ pc = "phase2"
    /\ weeks_added < remaining_weeks
    /\ LET weeks_to_add == Min(batch_size, remaining_weeks - weeks_added)
       IN  IF rental_span = None
           THEN /\ weeks_added' = weeks_added + 0
                /\ UNCHANGED <<batch, pc>>
           ELSE LET last_date == rental_span[1].max
                    next_week_start == MondayOf(last_date + 1)
                    weeks_since_start == (next_week_start - rental_span[1].min) \div 7
                IN  /\ batch' = Some([num_weeks |-> weeks_to_add,
                                      next_week_start |-> next_week_start,
                                      weeks_since_start |-> weeks_since_start,
                                      i |-> 0])
                    /\ pc' = "batch"
                    /\ UNCHANGED weeks_added
    /\ churned_customers' = {}
    /\ seasonal_drift' = RInt(0)
    /\ UNCHANGED core_vars
    /\ UNCHANGED lifecycle_config_vars
    /\ UNCHANGED <<week_number, call_results, customer, active, churn_marked,
                   rental_rows, new_rentals, late_fees, total_weeks, current_week,
                   rental_span, last_week>>

\* one iteration of the loop of add_incremental_weeks (lines 775-827) with the dates
\* of the week
AddIncrementalWeekOfBatch ==
    /\ pc = "batch"
    /\ batch[1].i < batch[1].num_weeks
    /\ LET i == batch[1].i
           week_start == AddWeeks(batch[1].next_week_start, i)
           week_no == batch[1].weeks_since_start + i + 1
       IN  \E drift \in DriftsOf(start_date, week_no) :
                 /\ seasonal_drift' = drift
                 /\ \E out \in week_of_transactions(week_start, week_no,
                                                     churned_customers, drift) :
                       /\ active' = Some(out.active)
                       /\ churned_customers' = out.churned_customers
                       /\ churn_marked' = churn_marked \cup out.churned_customers
                       /\ rental_span' = out.rental_span
                 /\ week_number' = week_no
                 /\ last_week' = WeekCall(week_start, week_no, "add_incremental_weeks",
                                          i = 0)
    /\ batch' = Some([batch[1] EXCEPT !.i = @ + 1])
    /\ UNCHANGED core_vars
    /\ UNCHANGED lifecycle_config_vars
    /\ UNCHANGED <<call_results, customer, rental_rows, new_rentals, late_fees, pc,
                   total_weeks, current_week, weeks_added>>

\* add_incremental_weeks returns weeks_added, its count of iterations (829-835);
\* main lines 967-975 (late fees are disabled in this configuration)
ReturnWeeksAdded ==
    /\ pc = "batch"
    /\ batch[1].i = batch[1].num_weeks
    /\ weeks_added' = weeks_added + batch[1].num_weeks
    /\ batch' = None
    /\ pc' = "phase2"
    /\ UNCHANGED core_vars
    /\ UNCHANGED lifecycle_vars
    /\ UNCHANGED <<call_results, customer, churned_customers, active, churn_marked,
                   rental_rows, new_rentals, late_fees, total_weeks, current_week,
                   rental_span, last_week>>

\* the while loop ends (main 958, 977)
StartPhase3 ==
    /\ pc = "phase2"
    /\ ~(weeks_added < remaining_weeks)
    /\ pc' = "done"
    /\ UNCHANGED core_vars
    /\ UNCHANGED lifecycle_vars
    /\ UNCHANGED <<call_results, customer, churned_customers, active, churn_marked,
                   rental_rows, new_rentals, late_fees, total_weeks, current_week,
                   weeks_added, batch, rental_span, last_week>>

\* generate_weeks(num_weeks, start_date) with num_weeks = MaxRemaining, one
\* iteration of its loop; current_week counts the iterations done
GenerateWeeksWeek ==
    /\ pc \in {"start", "generate_weeks"}
    /\ current_week < MaxRemaining
    /\ LET aligned == MondayOf(start_date)
           week_num == current_week + 1
           week_start == AddWeeks(aligned, week_num - 1)
       IN  /\ \E out \in week_of_transactions(week_start, week_num,
                                               churned_customers, RInt(0)) :
                 /\ active' = Some(out.active)
                 /\ churned_customers' = out.churned_customers
                 /\ churn_marked' = churn_marked \cup out.churned_customers
                 /\ rental_span' = out.rental_span
           /\ week_number' = week_num
           /\ last_week' = WeekCall(week_start, week_num, "generate_weeks", week_num = 1)
    /\ seasonal_drift' = RInt(0)
    /\ current_week' = current_week + 1
    /\ pc' = "generate_weeks"
    /\ UNCHANGED core_vars
    /\ UNCHANGED lifecycle_config_vars
    /\ UNCHANGED <<call_results, customer, rental_rows, new_rentals, late_fees,
                   total_weeks, weeks_added, batch>>

\* no customer at all, or one customer created ten weeks before the run
RunCustomerTables == {<<>>, <<Some(70)>>}

\* simulation.initial_weeks of the configuration (line 185): the 12 that generator.py
\* takes as its default, and values above the 30 weeks of run_initial_setup
TotalWeeksValues == {12, initial_weeks + 3, initial_weeks + MaxRemaining}

InitRun ==
    /\ config = MysqlConfig
    /\ zipfian_alpha = InitZipfianAlpha(config)
    /\ calc = None
    /\ EmptyDatabase
    /\ phase_call = None
    /\ business_phases = DefaultBusinessPhases
    /\ volume_modifiers = DefaultVolumeModifiers
    /\ start_date \in RunStartDates
    /\ base_weekly_transactions = DefaultBaseWeeklyTransactions
    /\ advanced_features = DefaultAdvancedFeatures
    /\ override_season = None
    /\ seasonal_drift = RInt(0)
    /\ week_number = 0
    /\ week = None
    /\ seasonal_call = None
    /\ call_results = NoCalls
    /\ customer \in RunCustomerTables
    /\ churned_customers = {}
    /\ active = None
    /\ churn_marked = {}
    /\ rental_rows = {}
    /\ new_rentals = <<>>
    /\ late_fees = None
    /\ pc = "start"
    /\ total_weeks \in TotalWeeksValues
    /\ current_week = 0
    /\ weeks_added = 0
    /\ batch = None
    /\ rental_span = None
    /\ last_week = None

NextRun ==
    \/ RunInitialSetupWeek
    \/ StartPhase2
    \/ CallAddIncrementalWeeks
    \/ AddIncrementalWeekOfBatch
    \/ ReturnWeeksAdded
    \/ StartPhase3
    \/ GenerateWeeksWeek

SpecRun == InitRun /\ [][NextRun]_vars

\* main runs on as long as it has a step to take
SpecRunLive == SpecRun /\ WF_vars(NextRun)

WeekCalled == last_week # None
TheLastWeek == last_week[1]

C28_Phase2Terminates ==
    /\ [](batch # None => batch[1].num_weeks <= 4)
    /\ [](pc \in {"phase2", "batch", "done"} => weeks_added <= remaining_weeks)
    /\ [](pc = "phase2" => <>(pc = "done" /\ weeks_added = remaining_weeks))

\* C29: the first week of a call of add_incremental_weeks starts strictly later than
\* every rental_date already in table rental, and its week number is one more than
\* the number of the last week generated before.
C29_NoWeekTwice ==
    [][(pc = "batch" /\ batch[1].i = 0 /\ pc' = "batch" /\ batch'[1].i = 1) =>
          /\ last_week'[1].week_start > rental_span[1].max
          /\ WeekCalled => last_week'[1].week_number = TheLastWeek.week_number + 1]_vars

====
